---- MODULE Spec2Model ----
(***************************************************************************)
(* scripts/fix-icon-padding.py: crop an icon to the bounding box of its    *)
(* non-transparent pixels, resize the crop to 90% of a 1024x1024 canvas,   *)
(* paste it at (margin, margin) and save it over assets/icon.png.          *)
(*                                                                         *)
(* Images are kept as tiled alpha channels: cw and rh are the widths of    *)
(* the column runs and the heights of the row runs, a[r][c] is the alpha   *)
(* of every pixel of tile (r, c).  A w x h pixel grid is the tiling with   *)
(* all runs 1.  Only the alpha band is kept: the script's control flow and *)
(* geometry read no other band.                                            *)
(***************************************************************************)
EXTENDS Integers, Sequences, FiniteSets, TLC

\* ---------------------------------------------------------------- bounds
\* Input images are grids of at most MaxDim x MaxDim tiles.
MaxDim == 2
\* The script is run at most MaxRuns times in a row on the same file.
MaxRuns == 2
\* Alpha values of the input tiles: transparent, the largest alpha a masked
\* paste onto a transparent canvas blends to 0, the smallest it does not,
\* and opaque.
AlphaValues == {0, 11, 12, 255}
\* Side of a tile of an input grid, in pixels.
Scales == {1, 700}

\* ------------------------------------------------------------- arithmetic
Min2(x, y) == IF x <= y THEN x ELSE y
Max2(x, y) == IF x >= y THEN x ELSE y
MinOf(S) == CHOOSE x \in S : \A y \in S : x <= y
MaxOf(S) == CHOOSE x \in S : \A y \in S : x >= y

RECURSIVE Sum(_)
Sum(s) == IF s = <<>> THEN 0 ELSE Head(s) + Sum(Tail(s))

RECURSIVE SortedSeq(_)
SortedSeq(S) == IF S = {} THEN <<>>
                ELSE LET m == MinOf(S) IN <<m>> \o SortedSeq(S \ {m})

\* ------------------------------------------------------------------ images
NoImage == [mode |-> "none", cw |-> <<>>, rh |-> <<>>, a |-> <<>>]
NoBBox == <<>>

Width(img) == Sum(img.cw)
Height(img) == Sum(img.rh)
Size(img) == <<Width(img), Height(img)>>

\* First pixel of run i (run Len+1 starts at the far edge).
Start(runs, i) == Sum(SubSeq(runs, 1, i - 1))
Breaks(runs) == {Start(runs, i) : i \in 1..(Len(runs) + 1)}
IndexAt(runs, p) ==
    CHOOSE i \in 1..Len(runs) : Start(runs, i) <= p /\ p < Start(runs, i) + runs[i]
PixelAlpha(img, x, y) == img.a[IndexAt(img.rh, y)][IndexAt(img.cw, x)]

\* The image with tile edges at xs and ys and pixel values px[x, y].
Retile(mode, xs, ys, px) ==
    [mode |-> mode,
     cw |-> [j \in 1..(Len(xs) - 1) |-> xs[j + 1] - xs[j]],
     rh |-> [i \in 1..(Len(ys) - 1) |-> ys[i + 1] - ys[i]],
     a |-> [i \in 1..(Len(ys) - 1) |-> [j \in 1..(Len(xs) - 1) |-> px[xs[j], ys[i]]]]]

\* The tiling with maximal runs: two images have the same pixels iff their
\* maximal tilings are equal.
Normalize(img) ==
    LET nc == Len(img.cw)
        nr == Len(img.rh)
        xs == {Start(img.cw, j) : j \in {j \in 1..nc :
                    j = 1 \/ \E r \in 1..nr : img.a[r][j] # img.a[r][j - 1]}}
        ys == {Start(img.rh, i) : i \in {i \in 1..nr :
                    i = 1 \/ \E c \in 1..nc : img.a[i][c] # img.a[i - 1][c]}}
        px == [x \in xs, y \in ys |-> PixelAlpha(img, x, y)]
    IN Retile(img.mode, SortedSeq(xs \cup {Width(img)}),
              SortedSeq(ys \cup {Height(img)}), px)

\* ----------------------------------------------------- the imaging library
\* img.convert('RGBA') of an image without an alpha band: fully opaque.
convert(img) ==
    [img EXCEPT !.mode = "RGBA",
                !.a = [i \in 1..Len(img.rh) |-> [j \in 1..Len(img.cw) |-> 255]]]

\* Mutant: a box is always found; an image of zero alpha gets the full frame.
Mut_getbbox_NeverNone(img) ==
    LET cols == {c \in 1..Len(img.cw) : \E r \in 1..Len(img.rh) : img.a[r][c] # 0}
        rows == {r \in 1..Len(img.rh) : \E c \in 1..Len(img.cw) : img.a[r][c] # 0}
    IN IF cols = {} THEN <<0, 0, Width(img), Height(img)>>
       ELSE <<Start(img.cw, MinOf(cols)), Start(img.rh, MinOf(rows)),
              Start(img.cw, MaxOf(cols) + 1), Start(img.rh, MaxOf(rows) + 1)>>

\* Mutant: right and lower are the last pixel of non-zero alpha, not one past it.
Mut_getbbox_Inclusive(img) ==
    LET cols == {c \in 1..Len(img.cw) : \E r \in 1..Len(img.rh) : img.a[r][c] # 0}
        rows == {r \in 1..Len(img.rh) : \E c \in 1..Len(img.cw) : img.a[r][c] # 0}
    IN IF cols = {} THEN NoBBox
       ELSE <<Start(img.cw, MinOf(cols)), Start(img.rh, MinOf(rows)),
              Start(img.cw, MaxOf(cols) + 1) - 1, Start(img.rh, MaxOf(rows) + 1) - 1>>

\* img.getbbox() of an RGBA image: (left, upper, right, lower) of the region
\* of non-zero alpha, right and lower exclusive; None when there is none.
getbbox(img) ==
    LET cols == {c \in 1..Len(img.cw) : \E r \in 1..Len(img.rh) : img.a[r][c] # 0}
        rows == {r \in 1..Len(img.rh) : \E c \in 1..Len(img.cw) : img.a[r][c] # 0}
    IN IF cols = {} THEN NoBBox
       ELSE <<Start(img.cw, MinOf(cols)), Start(img.rh, MinOf(rows)),
              Start(img.cw, MaxOf(cols) + 1), Start(img.rh, MaxOf(rows) + 1)>>

\* Pixels of run i that lie in [lo, hi).
Overlap(runs, i, lo, hi) ==
    LET s == Start(runs, i)
    IN Max2(0, Min2(s + runs[i], hi) - Max2(s, lo))
Kept(runs, lo, hi) ==
    SelectSeq([i \in 1..Len(runs) |-> i], LAMBDA i : Overlap(runs, i, lo, hi) > 0)

\* img.crop(box), box inside the image.
crop(img, box) ==
    LET kc == Kept(img.cw, box[1], box[3])
        kr == Kept(img.rh, box[2], box[4])
    IN [mode |-> img.mode,
        cw |-> [j \in 1..Len(kc) |-> Overlap(img.cw, kc[j], box[1], box[3])],
        rh |-> [i \in 1..Len(kr) |-> Overlap(img.rh, kr[i], box[2], box[4])],
        a |-> [i \in 1..Len(kr) |-> [j \in 1..Len(kc) |-> img.a[kr[i]][kc[j]]]]]

Uniform(img) ==
    \A r \in 1..Len(img.rh) : \A c \in 1..Len(img.cw) : img.a[r][c] = img.a[1][1]

\* Mutant: the resize keeps the aspect ratio (fits the image into size).
Mut_resize_KeepAspect(img, size) ==
    LET m == Max2(Width(img), Height(img))
    IN [mode |-> img.mode,
        cw |-> <<Max2(1, (size[1] * Width(img)) \div m)>>,
        rh |-> <<Max2(1, (size[2] * Height(img)) \div m)>>,
        a |-> <<<<img.a[1][1]>>>>]

\* img.resize(size, LANCZOS).  An image already of that size is copied; the
\* filter's coefficients are normalised, so a constant band stays constant.
\* Any other band depends on the kernel's real-valued coefficients: the
\* inputs are bounded to crops of the first two kinds (CropResizable).
resize(img, size) ==
    CASE Size(img) = size -> img
      [] Size(img) # size /\ Uniform(img) ->
            [mode |-> img.mode, cw |-> <<size[1]>>, rh |-> <<size[2]>>,
             a |-> <<<<img.a[1][1]>>>>]

\* Image.new(mode, size, color): every pixel has the colour's alpha.
new(mode, size, alpha) ==
    [mode |-> mode, cw |-> <<size[1]>>, rh |-> <<size[2]>>, a |-> <<<<alpha>>>>]

\* Mutant: the paste replaces the pixel wherever the mask is not zero.
Mut_BLEND8_Replace(mask, in1, in2) == IF mask = 0 THEN in1 ELSE in2

\* Paste.c: DIV255 and BLEND8, the per-band blend of a masked paste.
DIV255(v) == LET tmp == v + 128 IN ((tmp \div 256) + tmp) \div 256
BLEND8(mask, in1, in2) == DIV255(in1 * (255 - mask) + in2 * mask)

\* dst.paste(src, pos, mask): inside the pasted box every band of dst, the
\* alpha band included, becomes the blend of dst and src weighted by the
\* mask's alpha; outside it dst is unchanged.
paste(dst, src, pos, mask) ==
    LET W == Width(dst)
        H == Height(dst)
        xs == Breaks(dst.cw) \cup
                {b \in {pos[1] + k : k \in Breaks(src.cw)} : 0 <= b /\ b <= W}
        ys == Breaks(dst.rh) \cup
                {b \in {pos[2] + k : k \in Breaks(src.rh)} : 0 <= b /\ b <= H}
        inside(x, y) == /\ pos[1] <= x /\ x < pos[1] + Width(src)
                        /\ pos[2] <= y /\ y < pos[2] + Height(src)
        px == [x \in xs \ {W}, y \in ys \ {H} |->
                 IF inside(x, y)
                 THEN BLEND8(PixelAlpha(mask, x - pos[1], y - pos[2]),
                             PixelAlpha(dst, x, y),
                             PixelAlpha(src, x - pos[1], y - pos[2]))
                 ELSE PixelAlpha(dst, x, y)]
    IN Retile(dst.mode, SortedSeq(xs), SortedSeq(ys), px)

\* ------------------------------------------------------------------ files
\* A file is missing, empty (zero bytes), garbage (no image), a PNG whose
\* header is on disk but whose pixel data is cut short (truncated), or a
\* complete PNG.  PNG is lossless: the data is the image's pixels.
NoData == [cw |-> <<>>, rh |-> <<>>, a |-> <<>>]
Missing == [kind |-> "missing", mode |-> "", size |-> <<>>, data |-> NoData]
Empty == [kind |-> "empty", mode |-> "", size |-> <<>>, data |-> NoData]
Garbage == [kind |-> "garbage", mode |-> "", size |-> <<>>, data |-> NoData]
HeaderOnly(img) ==
    [kind |-> "truncated", mode |-> img.mode, size |-> Size(img), data |-> NoData]
Png(img) ==
    LET n == Normalize(img)
    IN [kind |-> "png", mode |-> img.mode, size |-> Size(img),
        data |-> [cw |-> n.cw, rh |-> n.rh, a |-> n.a]]

\* Image.open reads the header only; the pixels are read by load().
Lazy(f) == [mode |-> f.mode, cw |-> <<f.size[1]>>, rh |-> <<f.size[2]>>, a |-> <<>>]
Loaded(img) == img.a # <<>>
Decoded(f) == [mode |-> f.mode, cw |-> f.data.cw, rh |-> f.data.rh, a |-> f.data.a]

\* ---------------------------------------------------------------- program
input_file == "assets/icon.png"
output_file == "assets/icon.png"
Paths == {input_file, output_file}

target_size == 1024
\* int(target_size * 0.90)
content_size == (target_size * 90) \div 100

VARIABLES
    fs,               \* the file system: the content of each path
    pc,               \* the line the process is at
    img, bbox, cropped, cropped_resized, final_img, margin,
                      \* fix_icon_padding's locals
    ret,              \* fix_icon_padding's return value
    exc,              \* the exception being propagated
    exit_code,        \* the process's exit status
    stdout,           \* the lines printed
    run,              \* how many times the script has been started
    before,           \* history: the output file's content when this run started
    prev_exit,        \* history: the exit status of the previous run
    saves             \* history: calls of save() in this run

locals == <<img, bbox, cropped, cropped_resized, final_img, margin>>
hist == <<run, before, prev_exit, saves>>
vars == <<fs, pc, img, bbox, cropped, cropped_resized, final_img, margin,
          ret, exc, exit_code, stdout, run, before, prev_exit, saves>>

NoExit == -1

\* ----------------------------------------------------------------- inputs
\* An n x m grid of s x s tiles.  An image without an alpha band carries a
\* placeholder band of zeros, which convert() replaces.
Grid(mode, s, a) ==
    [mode |-> mode, cw |-> [j \in 1..Len(a[1]) |-> s],
     rh |-> [i \in 1..Len(a) |-> s], a |-> a]

Grids ==
    UNION {[1..n -> [1..m -> AlphaValues]] : n \in 1..MaxDim, m \in 1..MaxDim}
Blank(n, m) == [i \in 1..n |-> [j \in 1..m |-> 0]]

\* A 512 x 512 image, opaque in the pixels lo..hi of both axes, both ends
\* included, and transparent elsewhere.
Scenario(lo, hi) ==
    [mode |-> "RGBA", cw |-> <<lo, hi - lo + 1, 512 - hi - 1>>,
     rh |-> <<lo, hi - lo + 1, 512 - hi - 1>>,
     a |-> <<<<0, 0, 0>>, <<0, 255, 0>>, <<0, 0, 0>>>>]

\* The crop the script would resize is constant or already of content size.
CropResizable(i) ==
    LET b == getbbox(i)
    IN b = NoBBox \/ LET c == crop(i, b)
                     IN Uniform(c) \/ Size(c) = <<content_size, content_size>>

Inputs ==
    {Grid("RGBA", s, a) : s \in Scales, a \in {g \in Grids : CropResizable(Grid("RGBA", 1, g))}}
    \cup {Grid("RGB", s, Blank(n, m)) : s \in Scales, n \in 1..MaxDim, m \in 1..MaxDim}
    \cup {Scenario(100, 400), Scenario(100, 399)}

InitialFiles ==
    {Missing, Empty, Garbage}
    \cup {HeaderOnly(new(mode, <<1, 1>>, 0)) : mode \in {"RGBA", "RGB"}}
    \cup {Png(i) : i \in Inputs}

Init ==
    /\ fs \in [Paths -> InitialFiles]
    /\ pc = "main"
    /\ img = NoImage /\ bbox = NoBBox /\ cropped = NoImage
    /\ cropped_resized = NoImage /\ final_img = NoImage /\ margin = 0
    /\ ret = "none" /\ exc = "" /\ exit_code = NoExit /\ stdout = <<>>
    /\ run = 1 /\ before = fs[output_file] /\ prev_exit = NoExit /\ saves = 0

\* ----------------------------------------------------------------- actions
\* An exception leaves fix_icon_padding and reaches the handler at line 61.
Raise(e) == pc' = "L61" /\ exc' = e

\* lines 52-57: the script calls fix_icon_padding(input_file, output_file).
Main ==
    /\ pc = "main"
    /\ pc' = "L14"
    /\ UNCHANGED <<fs, locals, ret, exc, exit_code, stdout, hist>>

\* line 14: img = Image.open(input_path)
ImageOpen ==
    /\ pc = "L14"
    /\ LET f == fs[input_file]
       IN IF f.kind \in {"png", "truncated"}
          THEN img' = Lazy(f) /\ pc' = "L17" /\ exc' = exc
          ELSE /\ Raise(IF f.kind = "missing" THEN "FileNotFoundError"
                        ELSE "UnidentifiedImageError")
               /\ img' = img
    /\ UNCHANGED <<fs, bbox, cropped, cropped_resized, final_img, margin,
                   ret, exit_code, stdout, hist>>

\* lines 17-18: if img.mode != 'RGBA': img = img.convert('RGBA')
Convert ==
    /\ pc = "L17"
    /\ LET f == fs[input_file]
       IN IF img.mode = "RGBA"
          THEN img' = img /\ pc' = "L21" /\ exc' = exc
          ELSE IF f.kind = "truncated"
          THEN Raise("OSError") /\ img' = img
          ELSE img' = convert(Decoded(f)) /\ pc' = "L21" /\ exc' = exc
    /\ UNCHANGED <<fs, bbox, cropped, cropped_resized, final_img, margin,
                   ret, exit_code, stdout, hist>>

\* line 21: bbox = img.getbbox()
GetBBox ==
    /\ pc = "L21"
    /\ LET f == fs[input_file]
       IN IF ~Loaded(img) /\ f.kind = "truncated"
          THEN Raise("OSError") /\ img' = img /\ bbox' = bbox
          ELSE LET loaded == IF Loaded(img) THEN img ELSE Decoded(f)
               IN img' = loaded /\ bbox' = getbbox(loaded)
                  /\ pc' = "L23" /\ exc' = exc
    /\ UNCHANGED <<fs, cropped, cropped_resized, final_img, margin,
                   ret, exit_code, stdout, hist>>

\* line 23: if bbox:
IfBBox ==
    /\ pc = "L23"
    /\ pc' = IF bbox # NoBBox THEN "L25" ELSE "L49"
    /\ UNCHANGED <<fs, locals, ret, exc, exit_code, stdout, hist>>

\* line 25: cropped = img.crop(bbox)
Crop ==
    /\ pc = "L25"
    /\ cropped' = crop(img, bbox)
    /\ pc' = "L33"
    /\ UNCHANGED <<fs, img, bbox, cropped_resized, final_img, margin,
                   ret, exc, exit_code, stdout, hist>>

\* lines 29-33: cropped_resized = cropped.resize((content_size, content_size), LANCZOS)
Resize ==
    /\ pc = "L33"
    /\ cropped_resized' = resize(cropped, <<content_size, content_size>>)
    /\ pc' = "L36"
    /\ UNCHANGED <<fs, img, bbox, cropped, final_img, margin,
                   ret, exc, exit_code, stdout, hist>>

\* Mutant: the canvas has the content's size, not the target's.
Mut_NewCanvas_ContentSize ==
    /\ pc = "L36"
    /\ final_img' = new("RGBA", <<content_size, content_size>>, 0)
    /\ pc' = "L39"
    /\ UNCHANGED <<fs, img, bbox, cropped, cropped_resized, margin,
                   ret, exc, exit_code, stdout, hist>>

\* Mutant: the canvas is opaque black, (0, 0, 0, 255).
Mut_NewCanvas_Opaque ==
    /\ pc = "L36"
    /\ final_img' = new("RGBA", <<target_size, target_size>>, 255)
    /\ pc' = "L39"
    /\ UNCHANGED <<fs, img, bbox, cropped, cropped_resized, margin,
                   ret, exc, exit_code, stdout, hist>>

\* line 36: final_img = Image.new('RGBA', (target_size, target_size), (0, 0, 0, 0))
NewCanvas ==
    /\ pc = "L36"
    /\ final_img' = new("RGBA", <<target_size, target_size>>, 0)
    /\ pc' = "L39"
    /\ UNCHANGED <<fs, img, bbox, cropped, cropped_resized, margin,
                   ret, exc, exit_code, stdout, hist>>

\* line 39: margin = (target_size - content_size) // 2
Margin ==
    /\ pc = "L39"
    /\ margin' = (target_size - content_size) \div 2
    /\ pc' = "L40"
    /\ UNCHANGED <<fs, img, bbox, cropped, cropped_resized, final_img,
                   ret, exc, exit_code, stdout, hist>>

\* line 40: final_img.paste(cropped_resized, (margin, margin), cropped_resized)
Paste ==
    /\ pc = "L40"
    /\ final_img' = paste(final_img, cropped_resized, <<margin, margin>>, cropped_resized)
    /\ pc' = "L43"
    /\ UNCHANGED <<fs, img, bbox, cropped, cropped_resized, margin,
                   ret, exc, exit_code, stdout, hist>>

\* line 43: final_img.save(output_path, 'PNG').  save() opens the path with
\* mode "w+b", which truncates an existing file, then the PNG plugin writes
\* the signature and header and then the pixel data.  The open fails on an
\* unwritable path and each write may fail (a full disk, an I/O error);
\* save() removes the file on failure only if it had created it, and here
\* the path exists: line 14 opened it.
SaveOpen ==
    /\ pc = "L43"
    /\ saves' = saves + 1
    /\ \/ /\ fs' = [fs EXCEPT ![output_file] = Empty]
          /\ pc' = "L43_header" /\ exc' = exc
       \/ /\ Raise("PermissionError")
          /\ fs' = fs
    /\ UNCHANGED <<locals, ret, exit_code, stdout, run, before, prev_exit>>

SaveHeader ==
    /\ pc = "L43_header"
    /\ \/ /\ fs' = [fs EXCEPT ![output_file] = HeaderOnly(final_img)]
          /\ pc' = "L43_data" /\ exc' = exc
       \/ /\ Raise("OSError")
          /\ fs' = fs
    /\ UNCHANGED <<locals, ret, exit_code, stdout, hist>>

\* Mutant: save() returns without writing the pixel data.
Mut_SaveData_NoData ==
    /\ pc = "L43_data"
    /\ pc' = "L44" /\ exc' = exc /\ fs' = fs
    /\ UNCHANGED <<locals, ret, exit_code, stdout, hist>>

SaveData ==
    /\ pc = "L43_data"
    /\ \/ /\ fs' = [fs EXCEPT ![output_file] = Png(final_img)]
          /\ pc' = "L44" /\ exc' = exc
       \/ /\ Raise("OSError")
          /\ fs' = fs
    /\ UNCHANGED <<locals, ret, exit_code, stdout, hist>>

\* lines 44-46: the three messages of a fixed icon.
PrintFixed ==
    /\ pc = "L44"
    /\ stdout' = stdout \o <<"Icon fixed", "Original bounding box", "New size">>
    /\ pc' = "L47"
    /\ UNCHANGED <<fs, locals, ret, exc, exit_code, hist>>

\* line 47: return True
ReturnTrue ==
    /\ pc = "L47"
    /\ ret' = "True"
    /\ pc' = "L57"
    /\ UNCHANGED <<fs, locals, exc, exit_code, stdout, hist>>

\* line 49: print("Error: Could not find image content")
PrintNoContent ==
    /\ pc = "L49"
    /\ stdout' = Append(stdout, "Error: Could not find image content")
    /\ pc' = "L50"
    /\ UNCHANGED <<fs, locals, ret, exc, exit_code, hist>>

\* line 50: return False
ReturnFalse ==
    /\ pc = "L50"
    /\ ret' = "False"
    /\ pc' = "L57"
    /\ UNCHANGED <<fs, locals, exc, exit_code, stdout, hist>>

\* lines 57-60: sys.exit(0) if the call returned True, else sys.exit(1).
\* SystemExit is no Exception: the handler at line 61 does not catch it.
MainExit ==
    /\ pc = "L57"
    /\ exit_code' = IF ret = "True" THEN 0 ELSE 1
    /\ pc' = "exited"
    /\ UNCHANGED <<fs, locals, ret, exc, stdout, hist>>

\* Mutant: the handler exits with status 0.
Mut_MainExcept_ExitZero ==
    /\ pc = "L61"
    /\ stdout' = Append(stdout, "Error: " \o exc)
    /\ exit_code' = 0
    /\ pc' = "exited"
    /\ UNCHANGED <<fs, locals, ret, exc, hist>>

\* lines 61-63: except Exception as e: print(f"Error: {e}"); sys.exit(1)
MainExcept ==
    /\ pc = "L61"
    /\ stdout' = Append(stdout, "Error: " \o exc)
    /\ exit_code' = 1
    /\ pc' = "exited"
    /\ UNCHANGED <<fs, locals, ret, exc, hist>>

\* The script is started again on the file the last run left.
Rerun ==
    /\ pc = "exited"
    /\ run < MaxRuns
    /\ run' = run + 1
    /\ before' = fs[output_file]
    /\ prev_exit' = exit_code
    /\ saves' = 0
    /\ pc' = "main"
    /\ img' = NoImage /\ bbox' = NoBBox /\ cropped' = NoImage
    /\ cropped_resized' = NoImage /\ final_img' = NoImage /\ margin' = 0
    /\ ret' = "none" /\ exc' = "" /\ exit_code' = NoExit /\ stdout' = <<>>
    /\ fs' = fs

Next ==
    \/ Main \/ ImageOpen \/ Convert \/ GetBBox \/ IfBBox \/ Crop \/ Resize
    \/ NewCanvas \/ Margin \/ Paste \/ SaveOpen \/ SaveHeader \/ SaveData
    \/ PrintFixed \/ ReturnTrue \/ PrintNoContent \/ ReturnFalse
    \/ MainExit \/ MainExcept \/ Rerun

Spec == Init /\ [][Next]_vars

\* ------------------------------------------------------------- properties
Out == fs[output_file]
Tiles(d) == {<<r, c>> : r \in 1..Len(d.rh), c \in 1..Len(d.cw)}

\* The input image has a non-transparent pixel once it has an alpha band.
HasContent(f) ==
    /\ f.kind = "png"
    /\ f.mode # "RGBA" \/ \E t \in Tiles(f.data) : f.data.a[t[1]][t[2]] # 0
FullyTransparent(f) ==
    /\ f.kind = "png" /\ f.mode = "RGBA"
    /\ \A t \in Tiles(f.data) : f.data.a[t[1]][t[2]] = 0
SemiTransparent(f) ==
    /\ f.kind = "png" /\ f.mode = "RGBA"
    /\ \E t \in Tiles(f.data) : f.data.a[t[1]][t[2]] \notin {0, 255}

\* The region line 40 pastes into: the offset and the size of the source.
PasteBox ==
    <<margin, margin, margin + Width(cropped_resized), margin + Height(cropped_resized)>>

\* Tile t of image i lies inside box.
TileInside(i, t, box) ==
    /\ box[1] <= Start(i.cw, t[2]) /\ Start(i.cw, t[2] + 1) <= box[3]
    /\ box[2] <= Start(i.rh, t[1]) /\ Start(i.rh, t[1] + 1) <= box[4]
NonZero(i) == {t \in Tiles(i) : i.a[t[1]][t[2]] # 0}

\* box contains every pixel of non-zero alpha, and no smaller box does:
\* each of its four edge rows and columns holds such a pixel.
MinimalBox(i, box) ==
    /\ \A t \in NonZero(i) : TileInside(i, t, box)
    /\ \E t \in NonZero(i) : Start(i.cw, t[2]) = box[1]
    /\ \E t \in NonZero(i) : Start(i.rh, t[1]) = box[2]
    /\ \E t \in NonZero(i) : Start(i.cw, t[2] + 1) = box[3]
    /\ \E t \in NonZero(i) : Start(i.rh, t[1] + 1) = box[4]

\* Every edge row and column of i has a pixel of alpha v or more.
EdgesAtLeast(i, v) ==
    LET S == {t \in Tiles(i) : i.a[t[1]][t[2]] >= v}
    IN /\ \E t \in S : t[1] = 1
       /\ \E t \in S : t[1] = Len(i.rh)
       /\ \E t \in S : t[2] = 1
       /\ \E t \in S : t[2] = Len(i.cw)

\* C1: a run that returns True on an input with a non-transparent pixel,
\* whatever the input's size, leaves a 1024 x 1024 image at the output path.
Thm_C1_OutputSize ==
    ret = "True" =>
        /\ HasContent(before)
        /\ Out.kind = "png"
        /\ Out.size = <<1024, 1024>>
        /\ Size(Decoded(Out)) = <<1024, 1024>>
Witness_C1_OutputSize ==
    /\ ret = "True" /\ pc = "exited"
    /\ before.size = <<1400, 700>>

\* C2: on a fully transparent input the run never calls save(), the output
\* file keeps the content it had before the run, the function returns False
\* and the process exits with code 1.
Thm_C2_TransparentInput ==
    FullyTransparent(before) =>
        /\ saves = 0
        /\ Out = before
        /\ pc = "exited" => ret = "False" /\ exit_code = 1
Witness_C2_TransparentInput ==
    /\ pc = "exited" /\ FullyTransparent(before) /\ run = 1
    /\ stdout = <<"Error: Could not find image content">>

\* C3 (as claimed): a run that has ended either succeeded with the complete
\* new image in the output file, or failed with the output file as it was
\* before the run.
Cex_C3_NoPartialWrite ==
    pc = "exited" =>
        \/ exit_code = 0 /\ Out = Png(final_img)
        \/ exit_code = 1 /\ Out = before

\* C4: a run ends with exit code 0 or 1; 0 iff fix_icon_padding returned
\* True (and then the output was written), 1 iff it returned False or an
\* exception was raised; after an exception the process only handles it and
\* exits, nothing is retried, and the handler's exit is final.
Thm_C4_ExitCode ==
    /\ exit_code \in {NoExit, 0, 1}
    /\ pc = "exited" <=> exit_code # NoExit
    /\ pc = "exited" =>
        /\ exit_code = 0 <=> ret = "True"
        /\ exit_code = 1 <=> (ret = "False" \/ exc # "")
        /\ exit_code = 0 => Out = Png(final_img)
    /\ exc # "" => pc \in {"L61", "exited"} /\ ret = "none"
    /\ saves <= 1
Witness_C4_ExitCode ==
    /\ pc = "exited" /\ exit_code = 1 /\ exc = "OSError" /\ saves = 1

Cex_C6_EqualMargins ==
    pc = "L43" =>
        /\ margin = 51
        /\ PasteBox[1] = margin
        /\ PasteBox[2] = margin
        /\ Width(final_img) - PasteBox[3] = margin
        /\ Height(final_img) - PasteBox[4] = margin

\* C7 (as claimed): for the 512 x 512 input whose opaque content occupies
\* pixels (100,100) to (400,400), the bounding box is (100,100,400,400) and
\* the crop is 300 x 300.
Cex_C7_Scenario ==
    (before = Png(Scenario(100, 400)) /\ cropped # NoImage) =>
        /\ bbox = <<100, 100, 400, 400>>
        /\ Size(cropped) = <<300, 300>>

\* C7 (amended): the bounding box is the minimal rectangle (left, top,
\* right, bottom) around the pixels of non-zero alpha, right and bottom one
\* past the last such pixel, and the crop is right-left wide and bottom-top
\* high.  Opaque content in pixels (100,100) to (400,400), both included,
\* gives the box (100,100,401,401) and a 301 x 301 crop; content in pixels
\* (100,100) to (399,399) gives (100,100,400,400) and 300 x 300.  Either is
\* resized to 921 x 921 and pasted at (51,51) on a new transparent
\* 1024 x 1024 canvas.
Thm_C7_BoundingBox ==
    /\ bbox # NoBBox => MinimalBox(img, bbox)
    /\ cropped # NoImage =>
          Size(cropped) = <<bbox[3] - bbox[1], bbox[4] - bbox[2]>>
    /\ (before = Png(Scenario(100, 400)) /\ cropped # NoImage) =>
          bbox = <<100, 100, 401, 401>> /\ Size(cropped) = <<301, 301>>
    /\ (before = Png(Scenario(100, 399)) /\ cropped # NoImage) =>
          bbox = <<100, 100, 400, 400>> /\ Size(cropped) = <<300, 300>>
    /\ (before \in {Png(Scenario(100, 400)), Png(Scenario(100, 399))} /\ pc = "L40") =>
          /\ Size(cropped_resized) = <<921, 921>>
          /\ Size(final_img) = <<1024, 1024>> /\ NonZero(final_img) = {}
    /\ (before \in {Png(Scenario(100, 400)), Png(Scenario(100, 399))} /\ ret = "True") =>
          /\ margin = 51
          /\ getbbox(final_img) = <<51, 51, 51 + 921, 51 + 921>>
          /\ Out = Png(final_img)
Witness_C7_BoundingBox ==
    /\ before = Png(Scenario(100, 400)) /\ ret = "True"
    /\ bbox = <<100, 100, 401, 401>>

\* C8: the tool is not idempotent: when a second run succeeds on the output
\* of a first run whose content is partly transparent (an alpha other than
\* 0 and 255), the second output differs from the first.
Thm_C8_NotIdempotent ==
    (run >= 2 /\ prev_exit = 0 /\ ret = "True" /\ SemiTransparent(before)) =>
        Out # before
Witness_C8_NotIdempotent ==
    /\ run = 2 /\ prev_exit = 0 /\ ret = "True" /\ pc = "exited"
    /\ Size(Decoded(before)) = <<1024, 1024>>
    /\ Out # before

\* C9: whatever the width and height of a non-empty bounding box's crop,
\* the resized content is 921 x 921.
Thm_C9_ForcedSquare ==
    /\ content_size = 921
    /\ cropped_resized # NoImage =>
        /\ bbox # NoBBox
        /\ Size(cropped_resized) = <<921, 921>>
Witness_C9_ForcedSquare ==
    /\ cropped_resized # NoImage
    /\ Width(cropped) = 2 * Height(cropped)

\* C10: save() is called at most once per run, only in the content branch
\* and only after load, bounding box, crop, resize and composite are done;
\* the output file changes only through it; True is returned only once the
\* complete image is on disk; the no-content branch never writes.
Thm_C10_Pipeline ==
    /\ saves <= 1
    /\ saves = 1 =>
        /\ bbox # NoBBox /\ bbox = getbbox(img)
        /\ cropped = crop(img, bbox)
        /\ cropped_resized = resize(cropped, <<content_size, content_size>>)
        /\ final_img = paste(new("RGBA", <<target_size, target_size>>, 0),
                             cropped_resized, <<margin, margin>>, cropped_resized)
    /\ Out # before => saves = 1
    /\ ret = "True" => saves = 1 /\ Out = Png(final_img)
    /\ (pc \in {"L49", "L50"} \/ ret = "False") =>
        saves = 0 /\ Out = before /\ bbox = NoBBox /\ final_img = NoImage
Witness_C10_Pipeline ==
    /\ ret = "True" /\ pc = "exited" /\ saves = 1 /\ Out # before

====
